---- MODULE Spec2Model ----
(***************************************************************************)
(* Innodanc dashboard (src/app.py): five dataframes are loaded from a      *)
(* SQLite database when the module is imported, the Dash layout is built   *)
(* from them, and afterwards every user interaction runs callbacks that    *)
(* filter, aggregate and pivot the loaded frames.                          *)
(*                                                                         *)
(* Encodings.  A date 'YYYY-MM-DD' is the integer yyyymmdd, a month label  *)
(* 'YYYY-MM' is the integer yyyymm (both order preserving).  SQL NULL,     *)
(* NaN and NaT are NullInt in numeric and date columns and NullStr in text *)
(* columns.  A dataframe is [columns, rows]: the set of column names and   *)
(* the sequence of row records; field idx is the row's index label.        *)
(***************************************************************************)
EXTENDS Integers, Sequences, FiniteSets, TLC

VARIABLES tables, db, sort_ties, pc, error, connections, queries,
          BT_data, MR_data, DA_data, TP_data, base_data,
          tab, filters, clicked, pending, triggered, result

vars == <<tables, db, sort_ties, pc, error, connections, queries,
          BT_data, MR_data, DA_data, TP_data, base_data,
          tab, filters, clicked, pending, triggered, result>>

-----------------------------------------------------------------------------
(* Bounds of the database contents explored *)

MaxMissing == 1
MaxStudents == 3
MaxTx == 3
MaxTeachers == 11

(* at most this many filter widgets are off the value the layout gave them *)
MaxChanged == 2

NullInt == -1
NullStr == "NULL"

(* every table a query of the program names *)
Tables == {"transaction_data", "student_basic", "student_learning_area",
           "course_data", "course_type", "student_learning_type",
           "course_student", "course_history", "teacher_basic", "course_basic"}

-----------------------------------------------------------------------------
(* Sequence helpers *)

RECURSIVE Flatten(_)
Flatten(ss) == IF ss = <<>> THEN <<>> ELSE Head(ss) \o Flatten(Tail(ss))

Range(s) == {s[i] : i \in 1..Len(s)}

RECURSIVE SumSeq(_)
SumSeq(s) == IF s = <<>> THEN 0 ELSE Head(s) + SumSeq(Tail(s))

RECURSIVE SortedSeq(_)
(* ascending sequence of a finite set of integers *)
SortedSeq(S) ==
    IF S = {} THEN <<>>
    ELSE LET m == CHOOSE x \in S : \A y \in S : x <= y
         IN <<m>> \o SortedSeq(S \ {m})

(* SQL LEFT JOIN ... ON l.lkey = r.rkey: every left row once per matching
   right row, in order, or once padded with NULLs when nothing matches.
   cols gives the selected columns, [name |-> right column]; nulls is the
   padding, [name |-> NULL] *)
LeftJoin(L, R, lkey, rkey, cols, nulls) ==
    Flatten([i \in 1..Len(L) |->
        LET ms == SelectSeq(R, LAMBDA r : L[i][lkey] = r[rkey])
        IN IF ms = <<>> THEN <<L[i] @@ nulls>>
           ELSE [j \in 1..Len(ms) |->
                   L[i] @@ [c \in DOMAIN cols |-> ms[j][cols[c]]]]])

(* read_sql_query numbers the result rows 0, 1, 2, ... *)
WithIndex(s) == [i \in 1..Len(s) |-> s[i] @@ [idx |-> i - 1]]

(* df[c]: the values of column c in row order *)
Column(rs, c) == [i \in 1..Len(rs) |-> rs[i][c]]

-----------------------------------------------------------------------------
(* Calendar of 2024, the year of the explored dates *)

MonthDays == <<31, 29, 31, 30, 31, 30, 31, 31, 30, 31, 30, 31>>

DayNames == <<"Monday", "Tuesday", "Wednesday", "Thursday", "Friday",
              "Saturday", "Sunday">>

RECURSIVE DaysBefore(_)
DaysBefore(m) == IF m <= 1 THEN 0 ELSE MonthDays[m - 1] + DaysBefore(m - 1)

DayOfYear(d) == DaysBefore((d \div 100) % 100) + (d % 100)

(* Series.dt.day_name(); 2024-01-01 is a Monday; NaT gives NaN *)
day_name(d) == IF d = NullInt THEN NullStr
               ELSE DayNames[((DayOfYear(d) - 1) % 7) + 1]

(* Series.dt.strftime('%Y-%m'); NaT gives NaN *)
strftime_Ym(d) == IF d = NullInt THEN NullInt ELSE d \div 100

(* the two applied to a Series *)
dt_day_name(s) == [i \in 1..Len(s) |-> day_name(s[i])]

dt_strftime_Ym(s) == [i \in 1..Len(s) |-> strftime_Ym(s[i])]

(* pd.to_datetime on the ISO text of the database; NULL gives NaT *)
to_datetime(t) == IF t = NullInt THEN NullInt ELSE t

-----------------------------------------------------------------------------
(* Database contents.  The explored databases hold the first nS students,  *)
(* the first nTx transactions and the first nT teachers of a fixed pool.   *)

StudentAge == <<18, 35, 55, 25>>
StudentGender == <<"F", "M", "F", "M">>
StudentCity == <<"Taipei", "Taipei", "Tainan", "Tainan">>
StudentArea == <<"Daan", "Xinyi", "East", "North">>

TxStudent == <<1, 2, 1, 3>>
TxDate == <<20240101, 20240102, 20240201, 20240205>>
TxValue == <<100, 200, 300, 400>>

CourseNames == <<"Yujia", "Lvdong", "Wudao">>

Rows_student_basic(nS) ==
    [s \in 1..nS |-> [StudentID |-> s, Age |-> StudentAge[s],
                      Gender |-> StudentGender[s]]]

Rows_student_learning_area(nS) ==
    [s \in 1..nS |-> [StudentID |-> s, City |-> StudentCity[s],
                      Area |-> StudentArea[s]]]

(* student 1 has two learning-type records *)
Rows_student_learning_type(nS) ==
    Flatten([s \in 1..nS |->
        IF s = 1 THEN <<[StudentID |-> s, LType |-> 1], [StudentID |-> s, LType |-> 2]>>
        ELSE <<[StudentID |-> s, LType |-> 1]>>])

(* student 1 bought two courses, student 2 one, the others none *)
Rows_course_data ==
    <<[Student_id |-> 1, Course_Type_id |-> 1],
      [Student_id |-> 1, Course_Type_id |-> 3],
      [Student_id |-> 2, Course_Type_id |-> 2]>>

Rows_course_type ==
    [i \in 1..3 |-> [Course_Type_ID |-> i, Course_Type_Name |-> CourseNames[i]]]

Rows_course_basic == [i \in 1..3 |-> [Course_Type_id |-> i]]

Rows_transaction_data(nTx) ==
    [i \in 1..nTx |-> [Transaction_ID |-> i, Student_id |-> TxStudent[i],
                       Order_Date |-> TxDate[i], Transaction_Value |-> TxValue[i]]]

TeacherNames == <<"T01 A", "T02 B", "T03 C", "T04 D", "T05 E", "T06 F",
                  "T07 G", "T08 H", "T09 I", "T10 J", "T11 K", "T12 L", "T13 M">>

Rows_teacher_basic(nT) ==
    [t \in 1..nT |-> [TeacherID |-> t, Teacher_Name |-> TeacherNames[t]]]

(* course t is taught by teacher t, in 1 + (t * 2) % 3 sessions; when      *)
(* there is a teacher at all, one more session has a teacher id that       *)
(* teacher_basic does not know                                             *)
Sessions(t) == 1 + ((t * 2) % 3)

SessionDate(k) == <<20240103, 20240204, 20240305>>[k]

Rows_course_history(nT) ==
    Flatten([t \in 1..nT |->
        [k \in 1..Sessions(t) |->
            [Course_id |-> t, Teacher_id |-> t, Course_Date |-> SessionDate(k)]]])
    \o (IF nT >= 1 THEN <<[Course_id |-> 1, Teacher_id |-> 99,
                            Course_Date |-> 20240103]>> ELSE <<>>)

(* course c has student 1 + c % 2 enrolled, and student 3 as well unless
   c % 3 = 2: the courses with three sessions and those with one session
   have two students, those with two sessions have one *)
Rows_course_student(nT) ==
    Flatten([c \in 1..nT |->
        <<[Course_id |-> c, Student_id |-> 1 + (c % 2), Course_Type_id |-> 1 + (c % 3)]>>
        \o (IF c % 3 # 2 THEN <<[Course_id |-> c, Student_id |-> 3, Course_Type_id |-> 2]>>
            ELSE <<>>)])

(* the rows of the tables of database d = <<nS, nTx, nT>> *)
DbRows(d) ==
    LET nS == d[1]
        nTx == d[2]
        nT == d[3]
    IN
    [t \in Tables |->
        CASE t = "transaction_data" -> Rows_transaction_data(nTx)
          [] t = "student_basic" -> Rows_student_basic(nS)
          [] t = "student_learning_area" -> Rows_student_learning_area(nS)
          [] t = "student_learning_type" -> Rows_student_learning_type(nS)
          [] t = "course_data" -> Rows_course_data
          [] t = "course_type" -> Rows_course_type
          [] t = "course_basic" -> Rows_course_basic
          [] t = "course_student" -> Rows_course_student(nT)
          [] t = "course_history" -> Rows_course_history(nT)
          [] t = "teacher_basic" -> Rows_teacher_basic(nT)]

-----------------------------------------------------------------------------
(* Dataframes *)

EmptyFrame == [columns |-> {}, rows |-> <<>>]

Frame(cols, rs) == [columns |-> cols, rows |-> rs]

(* DataFrame.empty *)
IsEmpty(df) == Len(df.rows) = 0 \/ df.columns = {}

Unknown == "Unknown"

(* the text 'Unknown' that fillna writes into the numeric Course_Type_id *)
UnknownId == 0

-----------------------------------------------------------------------------
(* load_transaction_data: the base query, then Order_Date to datetime *)

TxQueryTables == {"transaction_data", "student_basic", "student_learning_area",
                  "course_data", "course_type"}

BaseColumns == {"Transaction_ID", "Student_id", "Order_Date", "Customer_Age",
                "Customer_Gender", "City", "Region", "Course_Type_Name", "Amount"}

base_query(R) ==
    LET j1 == LeftJoin(R["transaction_data"], R["student_basic"],
                  "Student_id", "StudentID",
                  [Customer_Age |-> "Age", Customer_Gender |-> "Gender"],
                  [Customer_Age |-> NullInt, Customer_Gender |-> NullStr])
        j2 == LeftJoin(j1, R["student_learning_area"],
                  "Student_id", "StudentID",
                  [City |-> "City", Region |-> "Area"],
                  [City |-> NullStr, Region |-> NullStr])
        j3 == LeftJoin(j2, R["course_data"],
                  "Student_id", "Student_id",
                  [cd_type |-> "Course_Type_id"],
                  [cd_type |-> NullInt])
        j4 == LeftJoin(j3, R["course_type"],
                  "cd_type", "Course_Type_ID",
                  [Course_Type_Name |-> "Course_Type_Name"],
                  [Course_Type_Name |-> NullStr])
    IN [i \in 1..Len(j4) |->
          [Transaction_ID |-> j4[i].Transaction_ID,
           Student_id |-> j4[i].Student_id,
           Order_Date |-> j4[i].Order_Date,
           Customer_Age |-> j4[i].Customer_Age,
           Customer_Gender |-> j4[i].Customer_Gender,
           City |-> j4[i].City,
           Region |-> j4[i].Region,
           Course_Type_Name |-> j4[i].Course_Type_Name,
           Amount |-> j4[i].Transaction_Value]]

(* result of the call: raised with the reason, or the frame *)
load_transaction_data(T, R) ==
    IF ~(TxQueryTables \subseteq T)
    THEN [raised |-> TRUE, reason |-> "DatabaseError", df |-> EmptyFrame]
    ELSE LET q == WithIndex(base_query(R))
         IN [raised |-> FALSE, reason |-> "",
             df |-> Frame(BaseColumns,
                      [i \in 1..Len(q) |->
                          [q[i] EXCEPT !.Order_Date = to_datetime(@)]])]

MonthNames == <<"January", "February", "March", "April", "May", "June", "July",
                "August", "September", "October", "November", "December">>

(* Series.dt.month_name() *)
month_name(d) == IF d = NullInt THEN NullStr ELSE MonthNames[(d \div 100) % 100]

load_data_BT(T, R) ==
    LET r == load_transaction_data(T, R)
    IN IF r.raised THEN r
       ELSE [r EXCEPT !.df = Frame(r.df.columns \cup {"Day_of_Week", "Month"},
                [i \in 1..Len(r.df.rows) |->
                    r.df.rows[i] @@ [Day_of_Week |-> day_name(r.df.rows[i].Order_Date),
                                     Month |-> month_name(r.df.rows[i].Order_Date)]])]

(* groupby(keys)['Amount'].sum().reset_index(): one row per key in ascending
   key order; rows whose key is NaN are left out *)
GroupSum(keys, amounts) ==
    LET ks == SortedSeq(Range(keys) \ {NullInt})
    IN [k \in 1..Len(ks) |->
          [key |-> ks[k],
           Amount |-> SumSeq([i \in 1..Len(keys) |->
                         IF keys[i] = ks[k] THEN amounts[i] ELSE 0])]]

(* Series.pct_change() without the factor 100 *)
WithGrowthRate_fraction(g) ==
    [k \in 1..Len(g) |->
        g[k] @@ [Growth_Rate |->
            IF k = 1 THEN <<NullInt, NullInt>>
            ELSE <<g[k].Amount - g[k - 1].Amount, g[k - 1].Amount>>]]

(* Series.pct_change() * 100 as the fraction num / den; NaN for the first *)
WithGrowthRate(g) ==
    [k \in 1..Len(g) |->
        g[k] @@ [Growth_Rate |->
            IF k = 1 THEN <<NullInt, NullInt>>
            ELSE <<100 * (g[k].Amount - g[k - 1].Amount), g[k - 1].Amount>>]]

load_data_MR(T, R) ==
    LET r == load_transaction_data(T, R)
    IN IF r.raised THEN r
       ELSE [r EXCEPT !.df = Frame({"Month_Year", "Amount", "Growth_Rate"},
                WithGrowthRate(GroupSum(
                    dt_strftime_Ym(Column(r.df.rows, "Order_Date")),
                    Column(r.df.rows, "Amount"))))]

-----------------------------------------------------------------------------
(* load_data_DA *)

required_tables == {"student_basic", "student_learning_area",
                    "student_learning_type", "course_student"}

missing_tables(T) == required_tables \ T

DAColumns == {"StudentID", "Age", "Gender", "City", "Learning Area",
              "Course_Type_id", "Course_Type_Name", "Course_Type_Note"}

DA_query(R) ==
    LET j1 == LeftJoin(R["student_basic"], R["student_learning_area"],
                  "StudentID", "StudentID",
                  [City |-> "City", Area |-> "Area"],
                  [City |-> NullStr, Area |-> NullStr])
        j2 == LeftJoin(j1, R["student_learning_type"],
                  "StudentID", "StudentID", <<>>, <<>>)
        j3 == LeftJoin(j2, R["course_student"],
                  "StudentID", "Student_id",
                  [Course_Type_id |-> "Course_Type_id"],
                  [Course_Type_id |-> NullInt])
    IN j3

(* the course type mapping written in the loader, merged on Course_Type_id *)
course_data_notes == <<"Yoga Classes", "Rhythmic Movement Classes", "Dance Classes">>

DAFrame(q) ==
    Frame(DAColumns,
      [i \in 1..Len(q) |->
        LET c == q[i].Course_Type_id
            known == c \in 1..3
        IN [idx |-> q[i].idx,
            StudentID |-> q[i].StudentID,
            Age |-> q[i].Age,
            Gender |-> IF q[i].Gender = NullStr THEN Unknown ELSE q[i].Gender,
            City |-> q[i].City,
            Area |-> IF q[i].Area = NullStr THEN Unknown ELSE q[i].Area,
            Course_Type_id |-> IF c = NullInt THEN UnknownId ELSE c,
            Course_Type_Name |-> IF known THEN CourseNames[c] ELSE NullStr,
            Course_Type_Note |-> IF known THEN course_data_notes[c] ELSE NullStr]])

(* load_data_DA without the table check: the join query is sent at once *)
load_data_DA_unchecked(T, R) ==
    IF missing_tables(T) # {}
    THEN [raised |-> TRUE, reason |-> "DatabaseError", queried |-> TRUE, df |-> EmptyFrame]
    ELSE LET q == WithIndex(DA_query(R))
         IN IF Len(q) = 0
            THEN [raised |-> TRUE, reason |-> "No data was retrieved from the database",
                  queried |-> TRUE, df |-> EmptyFrame]
            ELSE [raised |-> FALSE, reason |-> "", queried |-> TRUE, df |-> DAFrame(q)]

(* load_data_DA without the validation of an empty result *)
load_data_DA_unvalidated(T, R) ==
    IF missing_tables(T) # {}
    THEN [raised |-> TRUE, reason |-> "Missing tables in database",
          queried |-> FALSE, df |-> EmptyFrame]
    ELSE [raised |-> FALSE, reason |-> "", queried |-> TRUE,
          df |-> DAFrame(WithIndex(DA_query(R)))]

load_data_DA(T, R) ==
    IF missing_tables(T) # {}
    THEN [raised |-> TRUE, reason |-> "Missing tables in database",
          queried |-> FALSE, df |-> EmptyFrame]
    ELSE LET q == WithIndex(DA_query(R))
         IN IF Len(q) = 0
            THEN [raised |-> TRUE, reason |-> "No data was retrieved from the database",
                  queried |-> TRUE, df |-> EmptyFrame]
            ELSE [raised |-> FALSE, reason |-> "", queried |-> TRUE, df |-> DAFrame(q)]

-----
(* load_data_TP *)

TPQueryTables == {"course_history", "teacher_basic", "course_student",
                  "course_basic", "student_learning_area", "student_basic"}

column_order == {"Teacher_ID", "Teacher_Name", "Student_ID", "Student_Gender",
                 "Student_Age", "Learning_City", "Learning_Area", "Course_Date"}

TP_query(R) ==
    LET j1 == LeftJoin(R["course_history"], R["teacher_basic"],
                  "Teacher_id", "TeacherID",
                  [Teacher_ID |-> "TeacherID", Teacher_Name |-> "Teacher_Name"],
                  [Teacher_ID |-> NullInt, Teacher_Name |-> NullStr])
        j2 == LeftJoin(j1, R["course_student"],
                  "Course_id", "Course_id",
                  [cs_student |-> "Student_id", cs_type |-> "Course_Type_id"],
                  [cs_student |-> NullInt, cs_type |-> NullInt])
        j3 == LeftJoin(j2, R["course_basic"],
                  "cs_type", "Course_Type_id", <<>>, <<>>)
        j4 == LeftJoin(j3, R["student_learning_area"],
                  "cs_student", "StudentID",
                  [Learning_City |-> "City", Learning_Area |-> "Area"],
                  [Learning_City |-> NullStr, Learning_Area |-> NullStr])
        j5 == LeftJoin(j4, R["student_basic"],
                  "cs_student", "StudentID",
                  [Student_ID |-> "StudentID", Student_Gender |-> "Gender",
                   Student_Age |-> "Age"],
                  [Student_ID |-> NullInt, Student_Gender |-> NullStr,
                   Student_Age |-> NullInt])
    IN j5

(* never raises: a failing query is caught and gives an empty DataFrame, and
   so does a query without rows *)
load_data_TP(T, R) ==
    IF ~(TPQueryTables \subseteq T)
    THEN [raised |-> FALSE, reason |-> "", caught |-> TRUE, df |-> EmptyFrame]
    ELSE LET q == WithIndex(TP_query(R))
         IN IF Len(q) = 0
            THEN [raised |-> FALSE, reason |-> "", caught |-> FALSE, df |-> EmptyFrame]
            ELSE [raised |-> FALSE, reason |-> "", caught |-> FALSE,
                  df |-> Frame(column_order,
                    [i \in 1..Len(q) |->
                      [idx |-> q[i].idx,
                       Teacher_ID |-> q[i].Teacher_ID,
                       Teacher_Name |-> IF q[i].Teacher_Name = NullStr THEN Unknown
                                        ELSE q[i].Teacher_Name,
                       Student_ID |-> q[i].Student_ID,
                       Student_Gender |-> IF q[i].Student_Gender = NullStr THEN Unknown
                                          ELSE q[i].Student_Gender,
                       Student_Age |-> q[i].Student_Age,
                       Learning_City |-> q[i].Learning_City,
                       Learning_Area |-> IF q[i].Learning_Area = NullStr THEN Unknown
                                         ELSE q[i].Learning_Area,
                       Course_Date |-> to_datetime(q[i].Course_Date)]])]

-----------------------------------------------------------------------------
(* The module-level frames as the callbacks see them, and local dataframe  *)
(* variables.  A local variable is a handle: the frame it holds, the       *)
(* global it was derived from and whether it still shares that global's    *)
(* storage, in which case a column assignment lands in the global too.     *)

Globals == [base_data |-> base_data, DA_data |-> DA_data, TP_data |-> TP_data,
            BT_data |-> BT_data, MR_data |-> MR_data]

(* df.copy(): a new object *)
copy(G, name) == [frame |-> G[name], origin |-> name, shares |-> FALSE]

(* df[mask]: boolean indexing gives a new object with the rows whose mask
   value is True; mask is a Series of booleans over the rows *)
BoolIndex(h, mask) ==
    LET rs == h.frame.rows
        kept == SelectSeq([i \in 1..Len(rs) |-> [row |-> rs[i], keep |-> mask[i]]],
                          LAMBDA e : e.keep)
    IN [h EXCEPT !.frame = Frame(h.frame.columns,
                               [k \in 1..Len(kept) |-> kept[k].row]),
                 !.shares = FALSE]

(* the masks of the filter steps: (s >= lo) & (s <= hi) and s.isin(sel); a
   comparison with NaN or NaT is False *)
between(s, lo, hi) == [i \in 1..Len(s) |-> s[i] # NullInt /\ s[i] >= lo /\ s[i] <= hi]

isin(s, sel) == [i \in 1..Len(s) |-> s[i] \in sel]

(* frame[col] = series: the values are aligned on the index labels; a label
   the series lacks gets the null of the column's type *)
AddColumn(df, col, series, null) ==
    Frame(df.columns \cup {col},
          [i \in 1..Len(df.rows) |->
              [c \in {col} |-> IF df.rows[i].idx \in DOMAIN series
                               THEN series[df.rows[i].idx] ELSE null]
              @@ df.rows[i]])

(* a column assignment that lands in the module-level frame whatever the
   variable refers to *)
StoredIn_global(h) == {h.origin}

(* the module-level frames stored in the object the variable refers to *)
StoredIn(h) == IF h.shares THEN {h.origin} ELSE {}

(* df[col] = values, values computed row by row from df: written to the
   object the variable refers to *)
SetItem(h, G, col, values, null) ==
    LET rs == h.frame.rows
        series == [k \in {rs[i].idx : i \in 1..Len(rs)} |->
                     values[CHOOSE i \in 1..Len(rs) : rs[i].idx = k]]
    IN [h |-> [h EXCEPT !.frame = AddColumn(h.frame, col, series, null)],
        G |-> [n \in DOMAIN G |->
                 IF n \in StoredIn(h) THEN AddColumn(G[n], col, series, null)
                 ELSE G[n]]]

(* the module-level frame a callback reads, and the database connections
   opened to get it: none, the callbacks use the frames loaded at import *)
snapshot_reload(G, name, T, R) == [G |-> G, opened |-> 1]

snapshot(G, name, T, R) == [G |-> G, opened |-> 0]

-----------------------------------------------------------------------------
(* Filter inputs.  None is NullInt for the dates and {} for the dropdowns  *)
(* (None and [] are both falsy); age_range is <<lo, hi>>.                  *)

(* Series.min() and Series.max(): NaN for no value *)
SeriesMin(s) ==
    LET vs == Range(s) \ {NullInt}
    IN IF vs = {} THEN NullInt ELSE CHOOSE x \in vs : \A y \in vs : x <= y

SeriesMax(s) ==
    LET vs == Range(s) \ {NullInt}
    IN IF vs = {} THEN NullInt ELSE CHOOSE x \in vs : \A y \in vs : x >= y

(* the values the layout gives the widgets of a tab *)
DefaultFilters(G) ==
    [start_date |-> SeriesMin(Column(G.base_data.rows, "Order_Date")),
     end_date |-> SeriesMax(Column(G.base_data.rows, "Order_Date")),
     age_range |-> <<SeriesMin(Column(G.DA_data.rows, "Age")),
                     SeriesMax(Column(G.DA_data.rows, "Age"))>>,
     course_types |-> {},
     cities |-> {},
     genders |-> {}]

NoFilters == [start_date |-> NullInt, end_date |-> NullInt, age_range |-> <<>>,
              course_types |-> {}, cities |-> {}, genders |-> {}]

DateOK(d, f) ==
    (f.start_date # NullInt /\ f.end_date # NullInt)
        => (d # NullInt /\ d >= f.start_date /\ d <= f.end_date)

AgeOK(a, f) ==
    (f.age_range # <<>>) => (a # NullInt /\ a >= f.age_range[1] /\ a <= f.age_range[2])

IsInOK(v, sel) == (sel # {}) => (v \in sel)

(* if start_date and end_date: df = df[(df[col] >= start_date) & (df[col] <= end_date)] *)
DateStep(h, col, f) ==
    IF f.start_date # NullInt /\ f.end_date # NullInt
    THEN BoolIndex(h, between(Column(h.frame.rows, col), f.start_date, f.end_date))
    ELSE h

(* if age_range: df = df[(df[col] >= age_range[0]) & (df[col] <= age_range[1])] *)
AgeStep(h, col, f) ==
    IF f.age_range # <<>>
    THEN BoolIndex(h, between(Column(h.frame.rows, col), f.age_range[1], f.age_range[2]))
    ELSE h

(* if selection: df = df[df[col].isin(selection)] *)
IsInStep(h, col, sel) ==
    IF sel # {} THEN BoolIndex(h, isin(Column(h.frame.rows, col), sel)) ELSE h

(* the filter steps with the course selection applied as an exclusion *)
FilterTransactions_excl(h, f) ==
    LET h1 == DateStep(h, "Order_Date", f)
        h2 == AgeStep(h1, "Customer_Age", f)
        h3 == IF f.course_types # {}
              THEN BoolIndex(h2, [i \in 1..Len(h2.frame.rows) |->
                       h2.frame.rows[i].Course_Type_Name \notin f.course_types])
              ELSE h2
        h4 == IsInStep(h3, "City", f.cities)
        h5 == IsInStep(h4, "Customer_Gender", f.genders)
    IN h5

(* the five filter steps of the transaction charts *)
FilterTransactions(h, f) ==
    LET h1 == DateStep(h, "Order_Date", f)
        h2 == AgeStep(h1, "Customer_Age", f)
        h3 == IsInStep(h2, "Course_Type_Name", f.course_types)
        h4 == IsInStep(h3, "City", f.cities)
        h5 == IsInStep(h4, "Customer_Gender", f.genders)
    IN h5

Idx(rs) == {rs[i].idx : i \in 1..Len(rs)}

NoResult == [output |-> "", raised |-> FALSE, source |-> "", fed |-> {},
             annotations |-> {}, fig |-> <<>>]

NoDataText == "No data available for the selected filters"

-----------------------------------------------------------------------------
(* update_monthly_revenue ('monthly-revenue-chart' and the operation tab's) *)

update_monthly_revenue(out, f, G0, T, R) ==
    LET s == snapshot(G0, "base_data", T, R)
        filtered_df == FilterTransactions(copy(s.G, "base_data"), f)
        monthly_revenue == WithGrowthRate(GroupSum(
                               dt_strftime_Ym(Column(filtered_df.frame.rows, "Order_Date")),
                               Column(filtered_df.frame.rows, "Amount")))
    IN {[res |-> [output |-> out, raised |-> FALSE, source |-> "base_data",
                  fed |-> Idx(filtered_df.frame.rows),
                  annotations |-> {},
                  fig |-> [x |-> [k \in 1..Len(monthly_revenue) |-> monthly_revenue[k].key],
                           y |-> [k \in 1..Len(monthly_revenue) |-> monthly_revenue[k].Amount],
                           growth |-> [k \in 1..Len(monthly_revenue) |->
                                         monthly_revenue[k].Growth_Rate]]],
         G |-> s.G, opened |-> s.opened]}

-----------------------------------------------------------------------------
(* update_booking_heatmap ('booking-heatmap' and the marketing tab's) *)

days_order == DayNames

(* the order in which a sort puts the day names *)
AlphabeticalDays == <<"Friday", "Monday", "Saturday", "Sunday", "Thursday",
                      "Tuesday", "Wednesday">>

(* groupby(['Day_of_Week', 'Month'])['Amount'].sum().reset_index() *)
GroupDayMonth(rs) ==
    LET keys == {<<rs[i].Day_of_Week, rs[i].Month>> : i \in 1..Len(rs)}
        good == {k \in keys : k[1] # NullStr /\ k[2] # NullInt}
    IN {[Day_of_Week |-> k[1], Month |-> k[2],
         Amount |-> SumSeq([i \in 1..Len(rs) |->
                      IF rs[i].Day_of_Week = k[1] /\ rs[i].Month = k[2]
                      THEN rs[i].Amount ELSE 0])] : k \in good}

(* all_combinations.merge(heatmap_data, on=['Day_of_Week'], how='left')
   .fillna(0): a day without a group keeps one row, whose Month and Amount
   are filled with 0 *)
MergeDays(days, hd) ==
    UNION {IF \E g \in hd : g.Day_of_Week = d
           THEN {g \in hd : g.Day_of_Week = d}
           ELSE {[Day_of_Week |-> d, Month |-> 0, Amount |-> 0]} : d \in Range(days)}

(* DataFrame.pivot(index='Day_of_Week', columns='Month', values='Amount')
   .fillna(0): sorted index and column labels *)
Pivot(hd) ==
    LET present == {g.Day_of_Week : g \in hd}
        labels == SortedSeq({g.Month : g \in hd})
    IN [index |-> SelectSeq(AlphabeticalDays, LAMBDA d : d \in present),
        columns |-> labels,
        values |-> [d \in present |-> [m \in Range(labels) |->
                      IF \E g \in hd : g.Day_of_Week = d /\ g.Month = m
                      THEN (CHOOSE g \in hd : g.Day_of_Week = d /\ g.Month = m).Amount
                      ELSE 0]]]

Reindex_none(pv, order) == pv

(* DataFrame.reindex(index=order): the rows of order, in that order; a label
   the frame lacks gets a row of NaN *)
Reindex(pv, order) ==
    [index |-> order,
     columns |-> pv.columns,
     values |-> [d \in Range(order) |->
                   IF d \in DOMAIN pv.values THEN pv.values[d]
                   ELSE [m \in Range(pv.columns) |-> NullInt]]]

update_booking_heatmap(out, f, G0, T, R) ==
    LET s == snapshot(G0, "base_data", T, R)
        h == FilterTransactions(copy(s.G, "base_data"), f)
        a1 == SetItem(h, s.G, "Day_of_Week",
                      dt_day_name(Column(h.frame.rows, "Order_Date")), NullStr)
        a2 == SetItem(a1.h, a1.G, "Month",
                      dt_strftime_Ym(Column(a1.h.frame.rows, "Order_Date")), NullInt)
        filtered_df == a2.h
        heatmap_data == MergeDays(days_order, GroupDayMonth(filtered_df.frame.rows))
        heatmap_pivot == Reindex(Pivot(heatmap_data), days_order)
    IN {[res |-> [output |-> out, raised |-> FALSE, source |-> "base_data",
                  fed |-> Idx(filtered_df.frame.rows),
                  annotations |-> {},
                  fig |-> heatmap_pivot],
         G |-> a2.G, opened |-> s.opened]}

-----------------------------------------------------------------------------
(* update_demographics ('demographics-chart', 'marketing-demographics-chart') *)

(* Series.value_counts(): the count of every non-null value *)
value_counts(s, null) ==
    [v \in Range(s) \ {null} |-> Cardinality({i \in 1..Len(s) : s[i] = v})]

DemoButtons == {"btn-gender", "btn-age", "btn-course", "btn-region", "btn-age-course"}

(* px.colors.sequential.Oranges[2:] *)
NumOranges == 7

(* the figure for the button id, after the empty check; the ids of the
   marketing tab carry the prefix 'marketing-' *)
DemographicsFigure(prefix, button_id, rs) ==
    CASE button_id = prefix \o "btn-gender" ->
           [chart |-> "gender", counts |-> value_counts(Column(rs, "Gender"), NullStr)]
      [] button_id = prefix \o "btn-age" ->
           [chart |-> "age", counts |-> value_counts(Column(rs, "Age"), NullInt)]
      [] button_id = prefix \o "btn-course" ->
           [chart |-> "course", counts |-> value_counts(Column(rs, "Course_Type_Name"), NullStr)]
      [] button_id = prefix \o "btn-region" ->
           [chart |-> "region", counts |-> value_counts(Column(rs, "Area"), NullStr)]
      [] button_id = prefix \o "btn-age-course" ->
           [chart |-> "age-course",
            counts |-> LET both == SelectSeq(rs, LAMBDA r :
                                      r.Age # NullInt /\ r.Course_Type_Name # NullStr)
                       IN value_counts([i \in 1..Len(both) |->
                                          <<both[i].Age, both[i].Course_Type_Name>>],
                                       <<NullInt, NullStr>>)]
      [] OTHER -> [chart |-> "blank", counts |-> <<>>]

(* the region chart indexes region_colors, one per region, by city number *)
RegionColorsRaise(rs) ==
    LET n_regions == Cardinality({rs[i].Area : i \in 1..Len(rs)})
        n_cities == Cardinality({rs[i].City : i \in 1..Len(rs)})
        n_colors == IF n_regions <= NumOranges THEN n_regions
                    ELSE NumOranges * ((n_regions \div NumOranges) + 1)
    IN n_cities > n_colors

(* the filter steps of the demographics charts: the students with a
   transaction in the date range, then age, course type and city; there is
   no gender input *)
FilterDemographics(G, f) ==
    LET filtered_transactions == DateStep(copy(G, "base_data"), "Order_Date", f)
        relevant_students == Range(Column(filtered_transactions.frame.rows, "Student_id"))
        d0 == BoolIndex(copy(G, "DA_data"),
                        isin(Column(G.DA_data.rows, "StudentID"), relevant_students))
        d1 == AgeStep(d0, "Age", f)
        d2 == IsInStep(d1, "Course_Type_Name", f.course_types)
        d3 == IsInStep(d2, "City", f.cities)
    IN d3

update_demographics(out, f, trig, G0, T, R) ==
    LET s == snapshot(G0, "base_data", T, R)
        prefix == IF out = "marketing-demographics-chart" THEN "marketing-" ELSE ""
        button_id == IF trig # "" THEN trig ELSE prefix \o "btn-gender"
        filtered_df == FilterDemographics(s.G, f)
        rs == filtered_df.frame.rows
        base == [output |-> out, raised |-> FALSE, source |-> "DA_data",
                 fed |-> Idx(rs), annotations |-> {},
                 fig |-> [chart |-> "blank", counts |-> <<>>]]
    IN {[res |-> IF Len(rs) = 0
                 THEN [base EXCEPT !.annotations = {NoDataText}]
                 ELSE IF button_id = prefix \o "btn-region" /\ RegionColorsRaise(rs)
                 THEN [base EXCEPT !.raised = TRUE]
                 ELSE [base EXCEPT !.fig = DemographicsFigure(prefix, button_id, rs)],
         G |-> s.G, opened |-> s.opened]}

-----------------------------------------------------------------------------
(* update_teacher_trend: the teacher class trend charts *)

(* the teacher charts cut to the top teachers when more than this many pass *)
TopCutThreshold == 10

TopN == 5

(* the four filter steps of the teacher charts, after the rows without a
   teacher name are removed; the course type input is not used *)
FilterTeachers(h, f) ==
    LET names == Column(h.frame.rows, "Teacher_Name")
        h0 == BoolIndex(h, [i \in 1..Len(names) |->
                              names[i] # Unknown /\ names[i] # NullStr])
        h1 == DateStep(h0, "Course_Date", f)
        h2 == AgeStep(h1, "Student_Age", f)
        h3 == IsInStep(h2, "Learning_City", f.cities)
        h4 == IsInStep(h3, "Student_Gender", f.genders)
    IN h4

RankOf(name) == CHOOSE k \in 1..Len(TeacherNames) : TeacherNames[k] = name

(* sort_values(ascending=False).head(n).index: the n largest.  The order
   the sort leaves equal counts in depends on the sort of the build; ties
   is "first" when it keeps them in index (name) order and "last" when it
   reverses them *)
HeadChoices(cnt, n, ties) ==
    LET ts == DOMAIN cnt
        Before(u, t) == \/ cnt[u] > cnt[t]
                        \/ /\ cnt[u] = cnt[t]
                           /\ IF ties = "first" THEN RankOf(u) < RankOf(t)
                              ELSE RankOf(u) > RankOf(t)
    IN {{t \in ts : Cardinality({u \in ts : Before(u, t)}) < n}}

(* sort_values(ascending=False).index: the keys of cnt from the largest
   count to the smallest, equal counts in the order of ties *)
SortDescending(cnt, ties) ==
    LET ts == DOMAIN cnt
        Before(u, t) == \/ cnt[u] > cnt[t]
                        \/ /\ cnt[u] = cnt[t]
                           /\ IF ties = "first" THEN RankOf(u) < RankOf(t)
                              ELSE RankOf(u) > RankOf(t)
    IN [k \in 1..Cardinality(ts) |->
          CHOOSE t \in ts : Cardinality({u \in ts : Before(u, t)}) = k - 1]

(* groupby('Teacher_Name').size() *)
ClassCounts(rs) == value_counts(Column(rs, "Teacher_Name"), NullStr)

(* the rows left after the cut to the top teachers by class count *)
TopCut(h, top) ==
    IF Cardinality(DOMAIN ClassCounts(h.frame.rows)) > TopCutThreshold
    THEN BoolIndex(h, isin(Column(h.frame.rows, "Teacher_Name"), top))
    ELSE h

KeyErrorResult(out, src) ==
    [output |-> out, raised |-> TRUE, source |-> src, fed |-> {},
     annotations |-> {}, fig |-> <<>>]

update_teacher_trend(out, f, ties, G0, T, R) ==
    LET s == snapshot(G0, "TP_data", T, R)
    IN IF "Teacher_Name" \notin s.G.TP_data.columns
       THEN {[res |-> KeyErrorResult(out, "TP_data"), G |-> s.G, opened |-> s.opened]}
       ELSE
       LET h == FilterTeachers(copy(s.G, "TP_data"), f)
           teacher_totals == ClassCounts(h.frame.rows)
       IN {LET filtered_df == TopCut(h, top_teachers)
               dated == SelectSeq(filtered_df.frame.rows, LAMBDA r : r.Course_Date # NullInt)
           IN [res |-> [output |-> out, raised |-> FALSE, source |-> "TP_data",
                        fed |-> Idx(filtered_df.frame.rows),
                        annotations |-> {},
                        fig |-> [teachers |-> DOMAIN ClassCounts(dated),
                                 totals |-> ClassCounts(dated),
                                 bars |-> value_counts([i \in 1..Len(dated) |->
                                     <<dated[i].Teacher_Name,
                                       strftime_Ym(dated[i].Course_Date)>>],
                                     <<NullStr, NullInt>>)]],
               G |-> s.G, opened |-> s.opened]
           : top_teachers \in HeadChoices(teacher_totals, TopN, ties)}

-----------------------------------------------------------------------------
(* update_teacher_trend on 'teacher-student-heatmap' and the marketing one *)

AgeGroups == <<"0-20", "21-30", "31-40", "41-50", "50+">>

AgeBins == <<0, 20, 30, 40, 50, 100>>

(* pd.cut(ages, bins, labels): bin k is (bins[k], bins[k + 1]]; an age in
   no bin, and NaN, gets no group *)
cut(a) ==
    IF a = NullInt \/ ~(\E k \in 1..5 : AgeBins[k] < a /\ a <= AgeBins[k + 1]) THEN NullStr
    ELSE AgeGroups[CHOOSE k \in 1..5 : AgeBins[k] < a /\ a <= AgeBins[k + 1]]

(* groupby('Teacher_Name')['Student_ID'].nunique() *)
StudentCounts(rs) ==
    LET ts == {rs[i].Teacher_Name : i \in 1..Len(rs)} \ {NullStr}
    IN [t \in ts |-> Cardinality({rs[i].Student_ID : i \in {j \in 1..Len(rs) :
                        rs[j].Teacher_Name = t}} \ {NullInt})]

(* the pivot that counts enrollment rows, size() in place of nunique() *)
StudentPivot_size(rs) ==
    LET ts == {rs[i].Teacher_Name : i \in 1..Len(rs)} \ {NullStr}
    IN [t \in ts |-> [g \in Range(AgeGroups) |->
          Cardinality({j \in 1..Len(rs) :
              rs[j].Teacher_Name = t /\ rs[j].Age_Group = g})]]

(* groupby(['Teacher_Name', 'Age_Group'])['Student_ID'].nunique() pivoted:
   every teacher of the rows against every age group *)
StudentPivot(rs) ==
    LET ts == {rs[i].Teacher_Name : i \in 1..Len(rs)} \ {NullStr}
    IN [t \in ts |-> [g \in Range(AgeGroups) |->
          Cardinality({rs[i].Student_ID : i \in {j \in 1..Len(rs) :
              rs[j].Teacher_Name = t /\ rs[j].Age_Group = g}} \ {NullInt})]]

update_teacher_student_heatmap(out, f, ties, G0, T, R) ==
    LET s == snapshot(G0, "TP_data", T, R)
    IN IF "Teacher_Name" \notin s.G.TP_data.columns
       THEN {[res |-> KeyErrorResult(out, "TP_data"), G |-> s.G, opened |-> s.opened]}
       ELSE
       LET h == FilterTeachers(copy(s.G, "TP_data"), f)
           class_totals == ClassCounts(h.frame.rows)
       IN UNION {
           LET h2 == FilterTeachers(TopCut(h, top_teachers), f)
               ages == Column(h2.frame.rows, "Student_Age")
               a == SetItem(h2, s.G, "Age_Group",
                            [i \in 1..Len(ages) |-> cut(ages[i])], NullStr)
               filtered_df == a.h
               heatmap_data == StudentPivot(filtered_df.frame.rows)
               teacher_totals == StudentCounts(filtered_df.frame.rows)
           IN {[res |-> [output |-> out, raised |-> FALSE, source |-> "TP_data",
                         fed |-> Idx(filtered_df.frame.rows),
                         annotations |-> {},
                         fig |-> [teachers |-> selected_teachers,
                                  rows |-> SortDescending(
                                      [t \in selected_teachers |-> teacher_totals[t]], ties),
                                  totals |-> [t \in selected_teachers |-> teacher_totals[t]],
                                  cells |-> [t \in selected_teachers |-> heatmap_data[t]],
                                  title |-> IF Cardinality(selected_teachers) > TopN
                                            THEN "Teacher Audience Analysis (Top 5 Teachers)"
                                            ELSE "Teacher Audience Analysis"]],
                 G |-> a.G, opened |-> s.opened]
               : selected_teachers \in HeadChoices(teacher_totals, TopN, ties)}
           : top_teachers \in HeadChoices(class_totals, TopN, ties)}

-----------------------------------------------------------------------------
(* render_content and the four charts of the Glimpse tab *)

TabValues == {"glimpse", "overview", "operation", "marketing"}

(* the values Input('tabs', 'value') is given: the four tabs, and values
   that are no tab *)
TabInputs == TabValues \cup {"", "settings"}

(* the display of the four Outputs, in the order of the decorator *)
Styles(glimpse, overview, operation, marketing) ==
    [pane \in TabValues |->
        CASE pane = "glimpse" -> glimpse
          [] pane = "overview" -> overview
          [] pane = "operation" -> operation
          [] OTHER -> marketing]

(* a render_content that never hides the glimpse pane *)
render_content_glimpse(t) ==
    CASE t = "overview" -> Styles("block", "block", "none", "none")
      [] t = "operation" -> Styles("block", "none", "block", "none")
      [] t = "marketing" -> Styles("block", "none", "none", "block")
      [] OTHER -> Styles("block", "none", "none", "none")

render_content(t) ==
    CASE t = "glimpse" -> Styles("block", "none", "none", "none")
      [] t = "overview" -> Styles("none", "block", "none", "none")
      [] t = "operation" -> Styles("none", "none", "block", "none")
      [] t = "marketing" -> Styles("none", "none", "none", "block")
      [] OTHER -> Styles("none", "none", "none", "none")

GlimpseOutputs == <<"overview-revenue-trend", "overview-course-dist",
                    "overview-gender-dist", "overview-age-dist">>

(* update_revenue_trend, update_course_dist, update_gender_dist and
   update_age_dist: {} unless the tab is glimpse, else a chart of all of
   base_data *)
update_glimpse(out, t, G0, T, R) ==
    LET s == snapshot(G0, "base_data", T, R)
        rs == s.G.base_data.rows
        fig == IF t # "glimpse" THEN <<>>
               ELSE CASE out = "overview-revenue-trend" ->
                           GroupSum(dt_strftime_Ym(Column(rs, "Order_Date")),
                                    Column(rs, "Amount"))
                      [] out = "overview-course-dist" ->
                           value_counts(Column(rs, "Course_Type_Name"), NullStr)
                      [] out = "overview-gender-dist" ->
                           value_counts(Column(rs, "Customer_Gender"), NullStr)
                      [] OTHER -> value_counts(Column(rs, "Customer_Age"), NullInt)
    IN {[res |-> [output |-> out, raised |-> FALSE, source |-> "base_data",
                  fed |-> IF t = "glimpse" THEN Idx(rs) ELSE {},
                  annotations |-> {}, fig |-> fig],
         G |-> s.G, opened |-> s.opened]}

-----------------------------------------------------------------------------
(* Initial states: a database with at most MaxMissing tables absent, and   *)
(* the import of the module about to load the first frame.                 *)

TeacherCounts == {0, 1, TopN + 1, MaxTeachers}

Scenarios ==
    {<<nS, MaxTx, 1>> : nS \in 0..MaxStudents}
    \cup {<<MaxStudents, nTx, 1>> : nTx \in 0..MaxTx}
    \cup {<<MaxStudents, MaxTx, nT>> : nT \in TeacherCounts}

Init ==
    /\ \E M \in SUBSET Tables : Cardinality(M) <= MaxMissing /\ tables = Tables \ M
    /\ db \in Scenarios
    /\ sort_ties \in (IF db[3] > TopN THEN {"first", "last"} ELSE {"first"})
    /\ pc = "load_BT"
    /\ error = ""
    /\ connections = 0
    /\ queries = <<>>
    /\ BT_data = EmptyFrame /\ MR_data = EmptyFrame /\ DA_data = EmptyFrame
    /\ TP_data = EmptyFrame /\ base_data = EmptyFrame
    /\ tab = "glimpse"
    /\ filters = NoFilters
    /\ clicked = ""
    /\ pending = <<>>
    /\ triggered = ""
    /\ result = NoResult

UIVars == <<tab, filters, clicked, pending, triggered, result>>

-----------------------------------------------------------------------------
(* Import of the module: the five loads in the order of lines 280-284, then *)
(* the layout.  An exception ends the import.                              *)

LoadBT ==
    /\ pc = "load_BT"
    /\ LET r == load_data_BT(tables, DbRows(db))
       IN /\ connections' = connections + 1
          /\ queries' = Append(queries, "base_query")
          /\ IF r.raised
             THEN pc' = "failed" /\ error' = r.reason /\ BT_data' = BT_data
             ELSE pc' = "load_MR" /\ error' = error /\ BT_data' = r.df
    /\ UNCHANGED <<tables, db, sort_ties, MR_data, DA_data, TP_data, base_data, UIVars>>

LoadMR ==
    /\ pc = "load_MR"
    /\ LET r == load_data_MR(tables, DbRows(db))
       IN /\ connections' = connections + 1
          /\ queries' = Append(queries, "base_query")
          /\ IF r.raised
             THEN pc' = "failed" /\ error' = r.reason /\ MR_data' = MR_data
             ELSE pc' = "load_DA" /\ error' = error /\ MR_data' = r.df
    /\ UNCHANGED <<tables, db, sort_ties, BT_data, DA_data, TP_data, base_data, UIVars>>

LoadDA ==
    /\ pc = "load_DA"
    /\ LET r == load_data_DA(tables, DbRows(db))
       IN /\ connections' = connections + 1
          /\ queries' = queries \o <<"table_check">>
                        \o (IF r.queried THEN <<"DA_query">> ELSE <<>>)
          /\ IF r.raised
             THEN pc' = "failed" /\ error' = r.reason /\ DA_data' = DA_data
             ELSE pc' = "load_TP" /\ error' = error /\ DA_data' = r.df
    /\ UNCHANGED <<tables, db, sort_ties, BT_data, MR_data, TP_data, base_data, UIVars>>

LoadTP ==
    /\ pc = "load_TP"
    /\ LET r == load_data_TP(tables, DbRows(db))
       IN /\ connections' = connections + 1
          /\ queries' = Append(queries, "TP_query")
          /\ IF r.raised
             THEN pc' = "failed" /\ error' = r.reason /\ TP_data' = TP_data
             ELSE pc' = "load_base" /\ error' = error /\ TP_data' = r.df
    /\ UNCHANGED <<tables, db, sort_ties, BT_data, MR_data, DA_data, base_data, UIVars>>

LoadBase ==
    /\ pc = "load_base"
    /\ LET r == load_transaction_data(tables, DbRows(db))
       IN /\ connections' = connections + 1
          /\ queries' = Append(queries, "base_query")
          /\ IF r.raised
             THEN pc' = "failed" /\ error' = r.reason /\ base_data' = base_data
             ELSE pc' = "layout" /\ error' = error /\ base_data' = r.df
    /\ UNCHANGED <<tables, db, sort_ties, BT_data, MR_data, DA_data, TP_data, UIVars>>

(* what building app.layout raises, "" if nothing: the Total Teachers card
   reads TP_data['Teacher_ID'], the age slider takes int() of the least and
   the largest Age of DA_data *)
LayoutError(G) ==
    IF "Teacher_ID" \notin G.TP_data.columns THEN "KeyError"
    ELSE IF SeriesMin(Column(G.DA_data.rows, "Age")) = NullInt THEN "ValueError"
    ELSE ""

(* the callbacks that run when the content of a tab is shown, in the order
   of the file *)
TabOutputs(t) ==
    CASE t = "overview" -> <<"monthly-revenue-chart", "booking-heatmap",
                             "demographics-chart", "teacher-class-trend",
                             "teacher-student-heatmap">>
      [] t = "operation" -> <<"operation-monthly-revenue-chart",
                              "operation-teacher-class-trend">>
      [] t = "marketing" -> <<"marketing-booking-heatmap",
                              "marketing-demographics-chart",
                              "marketing-teacher-student-heatmap">>
      [] OTHER -> <<>>

OnTabValue(t) == <<"tab-content">> \o GlimpseOutputs \o TabOutputs(t)

BuildLayout ==
    /\ pc = "layout"
    /\ IF LayoutError(Globals) # ""
       THEN /\ pc' = "failed" /\ error' = LayoutError(Globals)
            /\ UNCHANGED UIVars
       ELSE /\ pc' = "serving" /\ error' = error
            /\ tab' = "glimpse"
            /\ filters' = DefaultFilters(Globals)
            /\ pending' = OnTabValue("glimpse")
            /\ UNCHANGED <<clicked, triggered, result>>
    /\ UNCHANGED <<tables, db, sort_ties, connections, queries,
                   BT_data, MR_data, DA_data, TP_data, base_data>>

-----------------------------------------------------------------------------
(* User interaction.  filters holds the values of the filter widgets of    *)
(* the tab shown; showing a tab mounts its widgets with the values of the  *)
(* layout.  An interaction is handled to the end (pending is empty) before *)
(* the next one.                                                           *)

FilterTabs == {"overview", "operation", "marketing"}

WidgetPrefix(t) == CASE t = "operation" -> "operation-"
                     [] t = "marketing" -> "marketing-"
                     [] OTHER -> ""

DemographicsOutputs == {"demographics-chart", "marketing-demographics-chart"}

(* the selections explored for each widget *)
NarrowDates == <<20240101, 20240131>>

NarrowAge == <<20, 40>>

DateChoices(G) == {<<NullInt, NullInt>>, NarrowDates,
                   <<DefaultFilters(G).start_date, DefaultFilters(G).end_date>>}

AgeChoices(G) == {NarrowAge, DefaultFilters(G).age_range}

(* the options of a dropdown: the unique values of a column, NaN dropped *)
Options(s) == Range(s) \ {NullStr}

CourseChoices(G) ==
    {S \in {{}, {"Yujia"}, {"Yujia", "Wudao"}} :
        S \subseteq Options(Column(G.base_data.rows, "Course_Type_Name"))}

CityChoices(G) ==
    {S \in {{}, {"Taipei"}} : S \subseteq Options(Column(G.DA_data.rows, "City"))}

GenderChoices(G) ==
    {S \in {{}, {"F"}} : S \subseteq Options(Column(G.base_data.rows, "Customer_Gender"))}

Idle == pc = "serving" /\ pending = <<>>

DataVars == <<tables, db, sort_ties, pc, error, connections, queries,
              BT_data, MR_data, DA_data, TP_data, base_data>>

SelectTab ==
    /\ Idle
    /\ \E t \in TabValues \ {tab} :
         /\ tab' = t
         /\ filters' = DefaultFilters(Globals)
         /\ pending' = OnTabValue(t)
    /\ clicked' = ""
    /\ triggered' = ""
    /\ result' = NoResult
    /\ UNCHANGED DataVars

(* a filter widget of the tab gets a new value; every callback that has it
   as an Input runs *)
OffDefault(f, b, G) ==
    LET d == DefaultFilters(G)
    IN Cardinality({w \in {"date", "age", "course", "city", "gender", "button"} :
          CASE w = "date" -> <<f.start_date, f.end_date>> # <<d.start_date, d.end_date>>
            [] w = "age" -> f.age_range # d.age_range
            [] w = "course" -> f.course_types # d.course_types
            [] w = "city" -> f.cities # d.cities
            [] w = "gender" -> f.genders # d.genders
            [] OTHER -> b # ""})

Changed(widget, f) ==
    /\ filters' = f
    /\ f # filters
    /\ OffDefault(f, clicked, Globals) <= MaxChanged
    /\ triggered' = WidgetPrefix(tab) \o widget
    /\ pending' = IF widget = "gender-dropdown"
                  THEN SelectSeq(TabOutputs(tab), LAMBDA o : o \notin DemographicsOutputs)
                  ELSE TabOutputs(tab)
    /\ result' = NoResult
    /\ UNCHANGED <<tab, clicked>>
    /\ UNCHANGED DataVars

SetDateRange ==
    /\ Idle /\ tab \in FilterTabs
    /\ \E d \in DateChoices(Globals) :
         Changed("date-range-combined",
                 [filters EXCEPT !.start_date = d[1], !.end_date = d[2]])

SetAgeRange ==
    /\ Idle /\ tab \in FilterTabs
    /\ \E a \in AgeChoices(Globals) :
         Changed("age-range-demo", [filters EXCEPT !.age_range = a])

SetCourseTypes ==
    /\ Idle /\ tab \in FilterTabs
    /\ \E c \in CourseChoices(Globals) :
         Changed("course-type-combined", [filters EXCEPT !.course_types = c])

SetCities ==
    /\ Idle /\ tab \in FilterTabs
    /\ \E c \in CityChoices(Globals) :
         Changed("region-revenue", [filters EXCEPT !.cities = c])

SetGenders ==
    /\ Idle /\ tab \in FilterTabs
    /\ \E g \in GenderChoices(Globals) :
         Changed("gender-dropdown", [filters EXCEPT !.genders = g])

ClickButton ==
    /\ Idle /\ tab \in {"overview", "marketing"}
    /\ \E b \in DemoButtons :
         /\ OffDefault(filters, b, Globals) <= MaxChanged
         /\ clicked' = b
         /\ triggered' = WidgetPrefix(tab) \o b
    /\ pending' = <<WidgetPrefix(tab) \o "demographics-chart">>
    /\ result' = NoResult
    /\ UNCHANGED <<tab, filters>>
    /\ UNCHANGED DataVars

-----------------------------------------------------------------------------
(* The callbacks: the one at the head of pending runs *)

Runs(outs) == pc = "serving" /\ pending # <<>> /\ Head(pending) \in outs

(* the callback returns r: its figure goes to the output, what it wrote to
   the module-level frames and the connections it opened stay *)
Returns(r) ==
    /\ result' = r.res
    /\ pending' = Tail(pending)
    /\ base_data' = r.G.base_data
    /\ DA_data' = r.G.DA_data
    /\ TP_data' = r.G.TP_data
    /\ BT_data' = r.G.BT_data
    /\ MR_data' = r.G.MR_data
    /\ connections' = connections + r.opened
    /\ UNCHANGED <<tables, db, sort_ties, pc, error, queries, tab, filters, clicked, triggered>>

RenderContent ==
    /\ Runs({"tab-content"})
    /\ Returns([res |-> [NoResult EXCEPT !.output = "tab-content",
                                         !.fig = render_content(tab)],
                G |-> Globals, opened |-> 0])

UpdateGlimpse ==
    /\ Runs(Range(GlimpseOutputs))
    /\ \E r \in update_glimpse(Head(pending), tab, Globals, tables, DbRows(db)) : Returns(r)

UpdateMonthlyRevenue ==
    /\ Runs({"monthly-revenue-chart", "operation-monthly-revenue-chart"})
    /\ \E r \in update_monthly_revenue(Head(pending), filters, Globals, tables, DbRows(db)) :
         Returns(r)

UpdateBookingHeatmap ==
    /\ Runs({"booking-heatmap", "marketing-booking-heatmap"})
    /\ \E r \in update_booking_heatmap(Head(pending), filters, Globals, tables, DbRows(db)) :
         Returns(r)

UpdateDemographics ==
    /\ Runs(DemographicsOutputs)
    /\ \E r \in update_demographics(Head(pending), filters, triggered, Globals, tables, DbRows(db)) :
         Returns(r)

UpdateTeacherTrend ==
    /\ Runs({"teacher-class-trend", "operation-teacher-class-trend"})
    /\ \E r \in update_teacher_trend(Head(pending), filters, sort_ties, Globals, tables, DbRows(db)) :
         Returns(r)

UpdateTeacherStudentHeatmap ==
    /\ Runs({"teacher-student-heatmap", "marketing-teacher-student-heatmap"})
    /\ \E r \in update_teacher_student_heatmap(Head(pending), filters, sort_ties, Globals, tables, DbRows(db)) :
         Returns(r)

Next ==
    \/ LoadBT \/ LoadMR \/ LoadDA \/ LoadTP \/ LoadBase \/ BuildLayout
    \/ SelectTab \/ SetDateRange \/ SetAgeRange \/ SetCourseTypes
    \/ SetCities \/ SetGenders \/ ClickButton
    \/ RenderContent \/ UpdateGlimpse \/ UpdateMonthlyRevenue
    \/ UpdateBookingHeatmap \/ UpdateDemographics \/ UpdateTeacherTrend
    \/ UpdateTeacherStudentHeatmap

Spec == Init /\ [][Next]_vars

-----------------------------------------------------------------------------
(* Properties *)

NumLoads == 5

Serving == pc = "serving"

MonthlyRevenueOutputs == {"monthly-revenue-chart", "operation-monthly-revenue-chart"}
BookingOutputs == {"booking-heatmap", "marketing-booking-heatmap"}
TeacherTrendOutputs == {"teacher-class-trend", "operation-teacher-class-trend"}
TeacherHeatmapOutputs == {"teacher-student-heatmap", "marketing-teacher-student-heatmap"}

FilteredOutputs == MonthlyRevenueOutputs \cup BookingOutputs \cup DemographicsOutputs
                   \cup TeacherTrendOutputs \cup TeacherHeatmapOutputs

(* a filtered chart callback has just returned for the current filters *)
Charted(outs) == Serving /\ result.output \in outs

RowAt(df, i) == CHOOSE r \in Range(df.rows) : r.idx = i

(* C1: whenever the filters leave a filtered chart callback no rows, the
   figure it returns carries the "no data" annotation and nothing is raised *)
C1_EmptyShowsNoData ==
    (Charted(FilteredOutputs) /\ result.fed = {} /\ Len(Globals[result.source].rows) > 0)
        => (~result.raised /\ NoDataText \in result.annotations)

(* C2: load_data_DA raises whenever one of its four tables is absent, before
   the demographic join query is sent, so the import fails; with the four
   present its table check never raises *)
C2_MissingTableRaises ==
    /\ (pc \in {"load_TP", "load_base", "layout", "serving"}) => missing_tables(tables) = {}
    /\ (missing_tables(tables) # {} /\ pc \notin {"load_BT", "load_MR", "load_DA"})
          => (pc = "failed" /\ "DA_query" \notin Range(queries))
    /\ (missing_tables(tables) # {} /\ "table_check" \in Range(queries))
          => error = "Missing tables in database"
    /\ (missing_tables(tables) = {}) => error # "Missing tables in database"

C2_Witness ==
    /\ pc = "failed" /\ error = "Missing tables in database"
    /\ queries = <<"base_query", "base_query", "table_check">>

LoaderErrors == {"DatabaseError", "Missing tables in database",
                 "No data was retrieved from the database"}

NoStudents == Len(DbRows(db)["student_basic"]) = 0

(* C3 as stated: with every table present no loader raises, whatever rows
   the tables hold *)
C3_OnlyMissingTableFails ==
    (tables = Tables) => error \notin LoaderErrors

(* C3 amended: with every table present the one loader that raises is
   load_data_DA, exactly when its join has no rows (student_basic is empty) *)
C3_OnlyEmptyJoinFails ==
    (tables = Tables) =>
        /\ error \in LoaderErrors =>
              /\ error = "No data was retrieved from the database"
              /\ NoStudents
              /\ queries = <<"base_query", "base_query", "table_check", "DA_query">>
        /\ (NoStudents /\ pc \notin {"load_BT", "load_MR", "load_DA"})
              => (pc = "failed" /\ error = "No data was retrieved from the database")

C3_Witness ==
    /\ tables = Tables /\ pc = "failed"
    /\ error = "No data was retrieved from the database"

(* C4: while the application serves, no step changes a row or a column of
   base_data, DA_data, TP_data, BT_data or MR_data *)
C4_SnapshotReadOnly ==
    [][Serving => <<base_data, DA_data, TP_data, BT_data, MR_data>>'
                  = <<base_data, DA_data, TP_data, BT_data, MR_data>>]_vars

C4_Witness ==
    /\ Charted({"booking-heatmap"}) /\ result.fed # {}
    /\ "Day_of_Week" \notin base_data.columns

(* C5: callbacks run only after the five loads, and no step of the serving
   application opens a connection or sends a query *)
C5_DatabaseReadAtStartupOnly ==
    [][(pending' # pending \/ result' # result) =>
          /\ pc \in {"layout", "serving"}
          /\ connections = NumLoads
          /\ connections' = connections
          /\ queries' = queries]_vars

C5_Witness ==
    /\ Charted({"monthly-revenue-chart"}) /\ result.fed # {}
    /\ connections = NumLoads

(* the course type of the enrollment row idx i of TP_data came from *)
TPCourseTypeName(i) ==
    LET c == TP_query(DbRows(db))[i + 1].cs_type
    IN IF c \in 1..3 THEN CourseNames[c] ELSE NullStr

(* row i of the frame a chart is drawn from meets all five selections *)
MeetsAllFive(src, i, f) ==
    CASE src = "base_data" ->
           LET r == RowAt(base_data, i)
           IN /\ DateOK(r.Order_Date, f) /\ AgeOK(r.Customer_Age, f)
              /\ IsInOK(r.Course_Type_Name, f.course_types)
              /\ IsInOK(r.City, f.cities)
              /\ IsInOK(r.Customer_Gender, f.genders)
      [] src = "TP_data" ->
           LET r == RowAt(TP_data, i)
           IN /\ DateOK(r.Course_Date, f) /\ AgeOK(r.Student_Age, f)
              /\ IsInOK(TPCourseTypeName(i), f.course_types)
              /\ IsInOK(r.Learning_City, f.cities)
              /\ IsInOK(r.Student_Gender, f.genders)
      [] OTHER ->
           LET r == RowAt(DA_data, i)
           IN /\ \E t \in Range(base_data.rows) :
                    t.Student_id = r.StudentID /\ DateOK(t.Order_Date, f)
              /\ AgeOK(r.Age, f)
              /\ IsInOK(r.Course_Type_Name, f.course_types)
              /\ IsInOK(r.City, f.cities)
              /\ IsInOK(r.Gender, f.genders)

(* C6: the rows a filtered chart is drawn from meet the date, age, course
   type, city and gender selections all at once *)
C6_AllFiveFilters ==
    (Charted(FilteredOutputs) /\ ~result.raised)
        => \A i \in result.fed : MeetsAllFive(result.source, i, filters)

(* the rows that pass the filter predicates of the callback of output out *)
FilterStage(out, f) ==
    IF out \in MonthlyRevenueOutputs \cup BookingOutputs
    THEN Idx(FilterTransactions(copy(Globals, "base_data"), f).frame.rows)
    ELSE IF out \in DemographicsOutputs
    THEN Idx(FilterDemographics(Globals, f).frame.rows)
    ELSE Idx(FilterTeachers(copy(Globals, "TP_data"), f).frame.rows)

FilterSpace ==
    {[start_date |-> d[1], end_date |-> d[2], age_range |-> a,
      course_types |-> c, cities |-> ci, genders |-> g] :
        d \in DateChoices(Globals), a \in AgeChoices(Globals),
        c \in {{}, {"Yujia"}, {"Yujia", "Wudao"}},
        ci \in {{}, {"Taipei"}}, g \in {{}, {"F"}}}

NarrowerSelection(s1, s2) == s1 = {} \/ (s2 # {} /\ s2 \subseteq s1)

(* f2 is at least as restrictive as f1 in every dimension *)
AtLeastAsRestrictive(f1, f2) ==
    /\ \/ f1.start_date = NullInt \/ f1.end_date = NullInt
       \/ /\ f2.start_date # NullInt /\ f2.end_date # NullInt
          /\ f1.start_date <= f2.start_date /\ f2.end_date <= f1.end_date
    /\ \/ f1.age_range = <<>>
       \/ /\ f2.age_range # <<>>
          /\ f1.age_range[1] <= f2.age_range[1] /\ f2.age_range[2] <= f1.age_range[2]
    /\ NarrowerSelection(f1.course_types, f2.course_types)
    /\ NarrowerSelection(f1.cities, f2.cities)
    /\ NarrowerSelection(f1.genders, f2.genders)

(* the rows the callback of output out draws its chart from under setting f *)
FedBy(out, f) ==
    LET rs == IF out \in MonthlyRevenueOutputs
              THEN update_monthly_revenue(out, f, Globals, tables, DbRows(db))
              ELSE IF out \in BookingOutputs
              THEN update_booking_heatmap(out, f, Globals, tables, DbRows(db))
              ELSE IF out \in DemographicsOutputs
              THEN update_demographics(out, f, triggered, Globals, tables, DbRows(db))
              ELSE IF out \in TeacherTrendOutputs
              THEN update_teacher_trend(out, f, sort_ties, Globals, tables, DbRows(db))
              ELSE update_teacher_student_heatmap(out, f, sort_ties, Globals, tables,
                                                  DbRows(db))
    IN UNION {r.res.fed : r \in rs}

(* the callback of output out makes no cut to the top teachers under f *)
NoTopCut(out, f) ==
    \/ out \notin TeacherTrendOutputs \cup TeacherHeatmapOutputs
    \/ Cardinality(DOMAIN ClassCounts(
           FilterTeachers(copy(Globals, "TP_data"), f).frame.rows)) <= TopCutThreshold

(* C7 as stated: for every filtered chart callback, a setting at least as
   restrictive as the current one in every dimension leaves the callback a
   subset of the rows the current one leaves it *)
C7_FilteredRowsNarrow ==
    Charted(FilteredOutputs) =>
        \A f2 \in FilterSpace :
            AtLeastAsRestrictive(filters, f2) => FedBy(result.output, f2) \subseteq result.fed

(* C7 amended: for every filtered chart callback, a setting at least as
   restrictive as the current one in every dimension lets through the filter
   predicates a subset of the rows the current one lets through; the rows
   the chart is drawn from narrow likewise unless the callback cuts to the
   top teachers under the current setting *)
C7_FiltersNarrowMonotonically ==
    Charted(FilteredOutputs) =>
        LET passed == FilterStage(result.output, filters)
            uncut == NoTopCut(result.output, filters)
        IN \A f2 \in FilterSpace :
              AtLeastAsRestrictive(filters, f2) =>
                  /\ FilterStage(result.output, f2) \subseteq passed
                  /\ uncut => FedBy(result.output, f2) \subseteq result.fed

C7_Witness ==
    /\ Charted(MonthlyRevenueOutputs)
    /\ filters.course_types # {}
    /\ result.fed = FilterStage(result.output, filters)
    /\ \E f2 \in FilterSpace :
          /\ AtLeastAsRestrictive(filters, f2)
          /\ f2.course_types # filters.course_types
          /\ FilterStage(result.output, f2) # {}
          /\ FilterStage(result.output, f2) # result.fed

(* C8: the pivot of the booking heatmap has the seven weekday rows, Monday
   to Sunday in that order, whatever the filters select *)
C8_SevenWeekdayRows ==
    Charted(BookingOutputs) =>
        /\ result.fig.index = DayNames
        /\ Len(result.fig.index) = 7
        /\ DOMAIN result.fig.values = Range(DayNames)

C8_Witness ==
    /\ Charted(BookingOutputs) /\ result.fed # {}
    /\ \E d \in Range(DayNames) :
          \A i \in result.fed : day_name(RowAt(base_data, i).Order_Date) # d

(* C9: the column labels of the booking heatmap pivot are exactly the
   months of the filtered transactions *)
C9_ColumnsAreFilteredMonths ==
    Charted(BookingOutputs) =>
        Range(result.fig.columns)
            = {strftime_Ym(RowAt(base_data, i).Order_Date) : i \in result.fed} \ {NullInt}

(* C10: the teacher class trend chart has at most five teachers, and no
   teacher left out has more filtered classes than one shown *)
C10_TopFiveTeachers ==
    (Charted(TeacherTrendOutputs) /\ ~result.raised) =>
        LET cnt == ClassCounts(FilterTeachers(copy(Globals, "TP_data"), filters).frame.rows)
        IN /\ Cardinality(result.fig.teachers) <= TopN
           /\ \A a \in result.fig.teachers : \A b \in (DOMAIN cnt) \ result.fig.teachers :
                 cnt[a] >= cnt[b]

(* the named teachers whose rows pass the filters, with their numbers of
   distinct students *)
PassingStudentCounts ==
    StudentCounts(FilterTeachers(copy(Globals, "TP_data"), filters).frame.rows)

(* C11: the rows of the teacher-student heatmap are the five teachers with
   the most distinct students among all named teachers that pass the
   filters (all of them when there are five or fewer), from the largest
   number of distinct students to the smallest *)
C11_RowsAreTopFiveByStudents ==
    (Charted(TeacherHeatmapOutputs) /\ ~result.raised) =>
        LET cnt == PassingStudentCounts
            rows == result.fig.rows
            shown == Range(rows)
        IN /\ shown \subseteq DOMAIN cnt
           /\ Len(rows) = (IF Cardinality(DOMAIN cnt) > TopN THEN TopN
                           ELSE Cardinality(DOMAIN cnt))
           /\ \A a \in shown : \A b \in (DOMAIN cnt) \ shown : cnt[a] >= cnt[b]
           /\ \A i \in 1..Len(rows) : \A j \in 1..Len(rows) :
                 i < j => cnt[rows[i]] >= cnt[rows[j]]

(* the rows of TP_data that pass the filters of the teacher charts *)
PassingTeacherRows == FilterTeachers(copy(Globals, "TP_data"), filters).frame.rows

(* the students of teacher t in age group g among the rows rs *)
StudentsIn(rs, t, g) ==
    {rs[i].Student_ID : i \in {j \in 1..Len(rs) :
        rs[j].Teacher_Name = t /\ cut(rs[j].Student_Age) = g}} \ {NullInt}

(* C12: every cell of the teacher-student heatmap is the number of
   distinct students among the filtered rows of its teacher whose age is in
   its age group, 0 when there is none; a student with several classes of
   the teacher counts once *)
C12_CellsCountDistinctStudents ==
    (Charted(TeacherHeatmapOutputs) /\ ~result.raised) =>
        \A t \in result.fig.teachers :
            /\ DOMAIN result.fig.cells[t] = Range(AgeGroups)
            /\ \A g \in Range(AgeGroups) :
                  result.fig.cells[t][g]
                      = Cardinality(StudentsIn(PassingTeacherRows, t, g))

(* a heatmap with an empty cell and a cell of a student who has several
   filtered classes of the teacher *)
C12_Witness ==
    /\ Charted(TeacherHeatmapOutputs) /\ ~result.raised
    /\ \E t \in result.fig.teachers : \E g, e \in Range(AgeGroups) :
          /\ result.fig.cells[t][e] = 0
          /\ result.fig.cells[t][g] >= 1
          /\ \E i, j \in 1..Len(PassingTeacherRows) :
                /\ i # j
                /\ PassingTeacherRows[i].Teacher_Name = t
                /\ PassingTeacherRows[j].Teacher_Name = t
                /\ PassingTeacherRows[i].Student_ID = PassingTeacherRows[j].Student_ID
                /\ cut(PassingTeacherRows[i].Student_Age) = g

-----------------------------------------------------------------------------
(* The age groups of the teacher-student heatmap, on their own: a frame of *)
(* one enrollment whose Student_Age is any value up to MaxAge, NaN         *)
(* included, gets its Age_Group column as in lines 2652-2657.              *)

MaxAge == 120

AgeInputs == {NullInt} \cup 0..MaxAge

CutInit ==
    /\ tables = Tables
    /\ db = <<0, 0, 0>>
    /\ sort_ties = "first"
    /\ pc = "cut"
    /\ error = ""
    /\ connections = 0
    /\ queries = <<>>
    /\ BT_data = EmptyFrame /\ MR_data = EmptyFrame /\ DA_data = EmptyFrame
    /\ base_data = EmptyFrame
    /\ \E a \in AgeInputs :
          TP_data = Frame({"Teacher_Name", "Student_ID", "Student_Age"},
                          <<[idx |-> 0, Teacher_Name |-> TeacherNames[1],
                             Student_ID |-> 1, Student_Age |-> a]>>)
    /\ tab = "overview"
    /\ filters = NoFilters
    /\ clicked = ""
    /\ pending = <<>>
    /\ triggered = ""
    /\ result = NoResult

(* filtered_df['Age_Group'] = pd.cut(filtered_df['Student_Age'], ...) *)
CreateAgeGroups ==
    /\ pc = "cut"
    /\ LET filtered_df == copy(Globals, "TP_data")
           ages == Column(filtered_df.frame.rows, "Student_Age")
           a == SetItem(filtered_df, Globals, "Age_Group",
                        [i \in 1..Len(ages) |-> cut(ages[i])], NullStr)
       IN result' = [NoResult EXCEPT !.output = "teacher-student-heatmap",
                                     !.source = "TP_data",
                                     !.fed = Idx(a.h.frame.rows),
                                     !.fig = a.h.frame.rows]
    /\ pc' = "grouped"
    /\ UNCHANGED <<tables, db, sort_ties, error, connections, queries, BT_data,
                   MR_data, DA_data, TP_data, base_data, tab, filters, clicked,
                   pending, triggered>>

CutNext == CreateAgeGroups

CutSpec == CutInit /\ [][CutNext]_vars

(* the group the labels give an age: 0 to 20, 21 to 30, 31 to 40, 41 to 50,
   and above 50 *)
LabelledGroup(a) ==
    IF a <= 20 THEN "0-20"
    ELSE IF a <= 30 THEN "21-30"
    ELSE IF a <= 40 THEN "31-40"
    ELSE IF a <= 50 THEN "41-50"
    ELSE "50+"

(* C13: every Student_Age that is not null is assigned exactly one age
   group: 0..20 is in '0-20', 21..30 in '21-30', 31..40 in '31-40', 41..50
   in '41-50' and every age above 50 in '50+' *)
C13_AgeGroupsPartition ==
    pc = "grouped" =>
        \A i \in 1..Len(result.fig) :
            result.fig[i].Student_Age # NullInt =>
                /\ result.fig[i].Age_Group \in Range(AgeGroups)
                /\ result.fig[i].Age_Group = LabelledGroup(result.fig[i].Student_Age)

(* the column of DA_data a distribution chart of the demographics counts *)
ChartColumn(chart) ==
    CASE chart = "gender" -> "Gender"
      [] chart = "age" -> "Age"
      [] OTHER -> "Area"

(* the students among the rows of DA_data the chart is drawn from whose
   column col is v *)
StudentsWith(col, v) ==
    {RowAt(DA_data, i).StudentID : i \in {j \in result.fed : RowAt(DA_data, j)[col] = v}}

(* C14: in the gender, age and region distributions of the demographics
   chart every student that passes the filters counts 1 in one category:
   the count of a category is the number of students in it, however many
   enrollments or learning-type records the students have *)
C14_ChartsCountStudents ==
    (Charted(DemographicsOutputs) /\ ~result.raised
        /\ result.fig.chart \in {"gender", "age", "region"}) =>
        \A v \in DOMAIN result.fig.counts :
            result.fig.counts[v]
                = Cardinality(StudentsWith(ChartColumn(result.fig.chart), v))

(* the Total Revenue card of the layout: base_data['Amount'].sum() *)
TotalRevenueCard(G) == SumSeq(Column(G.base_data.rows, "Amount"))

(* the rows of table transaction_data *)
Transactions == DbRows(db)["transaction_data"]

(* the sum of Transaction_Value over the transactions ordered in month m *)
MonthValue(m) ==
    SumSeq([i \in 1..Len(Transactions) |->
              IF strftime_Ym(Transactions[i].Order_Date) = m
              THEN Transactions[i].Transaction_Value ELSE 0])

(* C15: every transaction record contributes its amount once: the Total
   Revenue card is the sum of Transaction_Value over transaction_data, and
   with the filters at their layout values the monthly revenue of a month
   is the sum of Transaction_Value over the transactions of that month,
   however many course records the buyer has *)
C15_TransactionCountsOnce ==
    Serving =>
        /\ TotalRevenueCard(Globals) = SumSeq(Column(Transactions, "Transaction_Value"))
        /\ (Charted(MonthlyRevenueOutputs) /\ filters = DefaultFilters(Globals)) =>
              \A k \in 1..Len(result.fig.x) :
                  result.fig.y[k] = MonthValue(result.fig.x[k])

(* the chart type a demographics button stands for *)
ButtonChart(b) ==
    CASE b = "btn-age" -> "age"
      [] b = "btn-course" -> "course"
      [] b = "btn-region" -> "region"
      [] b = "btn-age-course" -> "age-course"
      [] OTHER -> "gender"

(* C16: after any clicks on the demographics buttons and filter changes,
   the demographics chart drawn from the filtered rows has the chart type
   of the button clicked last, the gender distribution when none was
   clicked: a filter change redraws that chart type *)
C16_ChartTypeFollowsLastButton ==
    (Charted(DemographicsOutputs) /\ ~result.raised /\ result.fed # {}) =>
        /\ result.fed = Idx(FilterDemographics(Globals, filters).frame.rows)
        /\ result.fig.chart = ButtonChart(clicked)

(* load_data_TP has returned at import *)
TPLoaded == \E k \in 1..Len(queries) : queries[k] = "TP_query"

(* C17: a query of load_data_TP that fails or returns no rows is not
   fatal: load_data_TP returns an empty frame without raising, and the
   import goes on to build the layout and does not end with an exception *)
C17_EmptyTeacherDataNotFatal ==
    (TPLoaded /\ IsEmpty(TP_data)) =>
        /\ ~load_data_TP(tables, DbRows(db)).raised
        /\ IsEmpty(load_data_TP(tables, DbRows(db)).df)
        /\ pc # "failed"

(* the content panes a style tuple of render_content makes visible *)
Visible(styles) == {pane \in TabValues : styles[pane] = "block"}

(* C18: render_content gives display 'block' to exactly the content pane
   of a tab value and 'none' to the other three, and 'none' to all four
   for a value that is no tab; so after any tab selections the styles
   returned for the selected tab show that pane and no other *)
C18_OnePaneVisible ==
    /\ \A t \in TabInputs :
          /\ \A pane \in TabValues : render_content(t)[pane] \in {"block", "none"}
          /\ Visible(render_content(t)) = (IF t \in TabValues THEN {t} ELSE {})
    /\ (Serving /\ result.output = "tab-content") =>
          /\ Visible(result.fig) = {tab}
          /\ Cardinality(Visible(result.fig)) <= 1

(* render_content has returned for a tab selected after the first one *)
C18_Witness ==
    /\ Serving /\ result.output = "tab-content"
    /\ tab = "marketing"
    /\ Visible(result.fig) = {"marketing"}

(* the rows of base_data the monthly revenue chart is drawn from that were
   ordered in month m *)
FedInMonth(m) == {i \in result.fed : strftime_Ym(RowAt(base_data, i).Order_Date) = m}

RECURSIVE SumAmount(_)
(* the sum of Amount over the rows of base_data with the labels in S *)
SumAmount(S) ==
    IF S = {} THEN 0
    ELSE LET i == CHOOSE j \in S : TRUE
         IN RowAt(base_data, i).Amount + SumAmount(S \ {i})

(* C19: the monthly revenue series has one entry for every year-month
   with a filtered transaction, in ascending order of month; the revenue
   of an entry is the sum of Amount over the filtered rows of its month;
   its growth rate is 100 * (revenue - previous revenue) / previous
   revenue, and the first entry has none *)
C19_MonthlySeries ==
    Charted(MonthlyRevenueOutputs) =>
        LET x == result.fig.x
            y == result.fig.y
            growth == result.fig.growth
            months == {strftime_Ym(RowAt(base_data, i).Order_Date) : i \in result.fed}
                          \ {NullInt}
        IN /\ Len(x) = Cardinality(months) /\ Len(y) = Len(x) /\ Len(growth) = Len(x)
           /\ Range(x) = months
           /\ \A k \in 1..Len(x) :
                 /\ k > 1 => x[k - 1] < x[k]
                 /\ y[k] = SumAmount(FedInMonth(x[k]))
                 /\ k = 1 => growth[k] = <<NullInt, NullInt>>
                 /\ k > 1 => /\ growth[k][2] # 0
                             /\ growth[k][1] * y[k - 1]
                                    = 100 * (y[k] - y[k - 1]) * growth[k][2]

(* a series of two months under a narrowed filter, one of them with more
   than one filtered row *)
C19_Witness ==
    /\ Charted(MonthlyRevenueOutputs)
    /\ Len(result.fig.x) >= 2
    /\ result.fig.growth[2] # <<NullInt, NullInt>>
    /\ \E k \in 1..Len(result.fig.x) : Cardinality(FedInMonth(result.fig.x[k])) >= 2
    /\ Cardinality(result.fed) < Len(base_data.rows)

====
